---- MODULE Spec2Model ----
(***************************************************************************)
(* Model of omi_weather_forecast/weather_omi.py: the session store         *)
(* (MessageBuffer), the notification cooldown map and the /webhook         *)
(* handler with its wake-phrase / question-aggregation state machine.      *)
(*                                                                         *)
(* Time is counted in tenths of a second (time.time() is a float; the      *)
(* thresholds of the program are 2.0, 5, 7.5, 10, 300 and 3600 seconds).   *)
(* A text is a sequence of one-character strings, so that substring,       *)
(* suffix, split, strip and lower are computed character by character.     *)
(***************************************************************************)
EXTENDS Integers, Sequences, FiniteSets, TLC

\* ------------------------------------------------------------------ bounds
MaxSegs == 2
MaxRequests == 2
StartTime == 1000
MaxTicks == 1

\* seconds -> clock units (tenths of a second)
Sec(x) == x * 10

\* ------------------------------------------------------- program constants
QUESTION_AGGREGATION_TIME == 5
cleanup_interval == 300
SESSION_RETENTION == 3600
NOTIFICATION_COOLDOWN == 10
PARTIAL_WINDOW == 2

TRIGGER_PHRASES ==
  << <<"h","e","y"," ","o","m","i">>, <<"h","e","y",","," ","o","m","i">> >>
PARTIAL_FIRST == << <<"h","e","y">>, <<"h","e","y",",">> >>
PARTIAL_SECOND == << <<"o","m","i">> >>
OMI_COMMA == <<"o","m","i",",">>

\* ----------------------------------------------------------- str helpers
UPPER == <<"A","B","C","D","E","F","G","H","I","J","K","L","M",
           "N","O","P","Q","R","S","T","U","V","W","X","Y","Z">>
LOWER == <<"a","b","c","d","e","f","g","h","i","j","k","l","m",
           "n","o","p","q","r","s","t","u","v","w","x","y","z">>

\* str.lower() on one character
LowerChar(c) ==
  IF \E i \in 1..26 : UPPER[i] = c
  THEN LOWER[CHOOSE i \in 1..26 : UPPER[i] = c]
  ELSE c

\* str.lower()
Lower(s) == [i \in 1..Len(s) |-> LowerChar(s[i])]

RECURSIVE LStrip(_)
LStrip(s) == IF Len(s) > 0 /\ s[1] = " " THEN LStrip(Tail(s)) ELSE s

RECURSIVE RStrip(_)
RStrip(s) ==
  IF Len(s) > 0 /\ s[Len(s)] = " " THEN RStrip(SubSeq(s, 1, Len(s) - 1)) ELSE s

\* str.strip()
Strip(s) == RStrip(LStrip(s))

\* sub occurs in s at position i
OccursAt(sub, s, i) ==
  /\ i >= 1
  /\ i + Len(sub) - 1 <= Len(s)
  /\ SubSeq(s, i, i + Len(sub) - 1) = sub

\* sub in s
Contains(sub, s) == \E i \in 1..(Len(s) + 1) : OccursAt(sub, s, i)

\* s.endswith(suf)
EndsWith(s, suf) == OccursAt(suf, s, Len(s) - Len(suf) + 1)

\* s.split(sep)[-1]: what follows the last of the occurrences of sep that
\* a left-to-right scan finds
RECURSIVE SplitLast(_, _)
SplitLast(s, sep) ==
  IF Contains(sep, s)
  THEN LET i == CHOOSE j \in 1..Len(s) :
                  /\ OccursAt(sep, s, j)
                  /\ \A k \in 1..(j - 1) : ~OccursAt(sep, s, k)
       IN SplitLast(SubSeq(s, i + Len(sep), Len(s)), sep)
  ELSE s

\* " ".join(q)
RECURSIVE Join(_)
Join(q) ==
  IF Len(q) = 0 THEN <<>>
  ELSE IF Len(q) = 1 THEN q[1]
  ELSE q[1] \o <<" ">> \o Join(Tail(q))

\* ------------------------------------------------------------------ inputs
Sessions == {"s1", "s2"}
NoSession == ""

TXT_NONE == <<>>
TXT_HEY_OMI == <<"H","e","y"," ","O","m","i">>
TXT_HEY_C_OMI_Q == <<"h","e","y",","," ","o","m","i",","," ","r","a","i","n">>
TXT_HEY == <<" ","h","e","y",",">>
TXT_OMI == <<"o","m","i">>
TXT_QUESTION == <<"R","a","i","n","?">>

Texts == {TXT_NONE, TXT_HEY_OMI, TXT_HEY_C_OMI_Q, TXT_HEY, TXT_OMI,
          TXT_QUESTION}

\* time elapsed between two requests, in tenths of a second
Deltas == {10, 21, 76, 3001, 36000, 36001}

\* number of comma separated parts in the location resolver's answer
ResolverParts == {1, 2, 3}

\* ------------------------------------------------------------------- state
VARIABLES
  clock,                   \* time.time()
  buffers,                 \* message_buffer.buffers: session id -> record
  last_cleanup,            \* message_buffer.last_cleanup
  notification_cooldowns,  \* defaultdict(float): session id -> timestamp
  nrequests,               \* POSTs received so far
  pc,                      \* position of the request being handled
  session_id,              \* locals of webhook()
  current_time,
  seg_idx,
  segment,
  has_processed,
  full_question,
  response,
  threads,                 \* concurrent requests: thread -> its locals
  lock,                    \* message_buffer.lock: "free" or the holder
  created                  \* session id -> records created for it so far

store == <<buffers, last_cleanup, notification_cooldowns>>
locals == <<session_id, current_time, seg_idx, segment, has_processed,
            full_question>>
\* the state of the server's worker threads
workers == <<threads, lock, created>>
vars == <<clock, buffers, last_cleanup, notification_cooldowns, nrequests, pc,
          session_id, current_time, seg_idx, segment, has_processed,
          full_question, response, threads, lock, created>>

\* the record a fresh session gets (get_buffer)
NewBuffer(t) ==
  [messages |-> <<>>,
   trigger_detected |-> FALSE,
   trigger_time |-> 0,
   collected_question |-> <<>>,
   response_sent |-> FALSE,
   partial_trigger |-> FALSE,
   partial_trigger_time |-> 0,
   last_activity |-> t]

\* mutant of ExpiredSessions: a session idle for exactly one hour is deleted
ExpiredAtRetention(bufs, t) ==
  {s \in DOMAIN bufs : t - bufs[s].last_activity >= Sec(SESSION_RETENTION)}

\* the sessions cleanup_old_sessions deletes at time t
ExpiredSessions(bufs, t) ==
  {s \in DOMAIN bufs : t - bufs[s].last_activity > Sec(SESSION_RETENTION)}

\* get_buffer decides to sweep first
CleanupDue(t) == t - last_cleanup > Sec(cleanup_interval)

\* text = segment["text"].lower().strip()
Text(raw) == Strip(Lower(raw))

\* any(trigger in text for trigger in [t.lower() for t in TRIGGER_PHRASES])
IsCompleteTrigger(text) ==
  \E i \in 1..Len(TRIGGER_PHRASES) : Contains(Lower(TRIGGER_PHRASES[i]), text)

\* any(text.endswith(part.lower()) for part in PARTIAL_FIRST)
IsPartialFirst(text) ==
  \E i \in 1..Len(PARTIAL_FIRST) : EndsWith(text, Lower(PARTIAL_FIRST[i]))

\* any(part.lower() in text.lower() for part in PARTIAL_SECOND)
IsPartialSecond(text) ==
  \E i \in 1..Len(PARTIAL_SECOND) :
    Contains(Lower(PARTIAL_SECOND[i]), Lower(text))

\* text.split("omi,")[-1].strip() if "omi," in text.lower() else ""
QuestionPart(text) ==
  IF Contains(OMI_COMMA, Lower(text)) THEN Strip(SplitLast(text, OMI_COMMA))
  ELSE <<>>

\* mutant of SecondPartUpdate: response_sent is left as it was
SecondPartKeepsResponseSent(rec, now, text) ==
  LET r == [rec EXCEPT !.trigger_detected = TRUE,
                       !.trigger_time = now,
                       !.collected_question = <<>>,
                       !.partial_trigger = FALSE]
      question_part ==
        IF Contains(OMI_COMMA, Lower(text))
        THEN Strip(SplitLast(text, OMI_COMMA)) ELSE <<>>
  IN IF Len(question_part) > 0
     THEN [r EXCEPT !.collected_question = Append(@, question_part)]
     ELSE r

\* mutant of CompleteTriggerUpdate: a stale partial_trigger flag is kept
CompleteTriggerKeepsPartial(rec, now, text) ==
  LET r == [rec EXCEPT !.trigger_detected = TRUE,
                       !.trigger_time = now,
                       !.collected_question = <<>>,
                       !.response_sent = FALSE]
      question_part ==
        IF Contains(OMI_COMMA, Lower(text))
        THEN Strip(SplitLast(text, OMI_COMMA)) ELSE <<>>
  IN IF Len(question_part) > 0
     THEN [r EXCEPT !.collected_question = Append(@, question_part)]
     ELSE r

\* the record after a complete trigger phrase
CompleteTriggerUpdate(rec, now, text) ==
  LET r == [rec EXCEPT !.trigger_detected = TRUE,
                       !.trigger_time = now,
                       !.collected_question = <<>>,
                       !.response_sent = FALSE,
                       !.partial_trigger = FALSE]
      question_part == QuestionPart(text)
  IN IF Len(question_part) > 0
     THEN [r EXCEPT !.collected_question = Append(@, question_part)]
     ELSE r

\* the cooldown map after a complete trigger phrase
CompleteTriggerCooldown(cd, sid, now) == [cd EXCEPT ![sid] = now]

\* the record after the second part of a split trigger
SecondPartUpdate(rec, now, text) ==
  LET r == [rec EXCEPT !.trigger_detected = TRUE,
                       !.trigger_time = now,
                       !.collected_question = <<>>,
                       !.response_sent = FALSE,
                       !.partial_trigger = FALSE]
      question_part == QuestionPart(text)
  IN IF Len(question_part) > 0
     THEN [r EXCEPT !.collected_question = Append(@, question_part)]
     ELSE r

\* the cooldown map after the second part of a split trigger: not written
SecondPartCooldown(cd, sid, now) == cd

\* mutant of FirstPartUpdate: the first part also clears response_sent
FirstPartClearsResponseSent(rec, now) ==
  [rec EXCEPT !.partial_trigger = TRUE, !.partial_trigger_time = now,
              !.response_sent = FALSE]

\* the record after the first part of a split trigger
FirstPartUpdate(rec, now) ==
  [rec EXCEPT !.partial_trigger = TRUE, !.partial_trigger_time = now]

\* mutant of PartialWindowOpen: the window never closes
PartialWindowNeverCloses(rec, now) == now - rec.partial_trigger_time >= 0

\* the 2 second window to complete the trigger is still open
PartialWindowOpen(rec, now) ==
  now - rec.partial_trigger_time <= Sec(PARTIAL_WINDOW)

\* mutant of CooldownActive: the cooldown check never answers the request
CooldownIgnored(rec, cd, now) == rec.trigger_detected /\ ~rec.trigger_detected

\* the request is answered at once, no segment looked at
CooldownActive(rec, cd, now) ==
  /\ rec.trigger_detected
  /\ ~rec.response_sent
  /\ now - cd < Sec(NOTIFICATION_COOLDOWN)

\* mutant of Collected: the segment is appended whatever the time
CollectedAlways(rec, now, text) == Append(rec.collected_question, text)

\* collected_question after the append of the collection step
Collected(rec, now, text) ==
  IF now - rec.trigger_time <= Sec(QUESTION_AGGREGATION_TIME)
  THEN Append(rec.collected_question, text)
  ELSE rec.collected_question

\* mutant of ShouldProcess: a question mark does not close the question
ShouldProcessNoQuestionMark(cq, time_since_trigger, text) ==
  \/ (time_since_trigger > Sec(QUESTION_AGGREGATION_TIME) /\ Len(cq) > 0)
  \/ (2 * time_since_trigger > 3 * Sec(QUESTION_AGGREGATION_TIME))

\* should_process, evaluated after the append; cq is the list after it
ShouldProcess(cq, time_since_trigger, text) ==
  \/ (time_since_trigger > Sec(QUESTION_AGGREGATION_TIME) /\ Len(cq) > 0)
  \/ (Len(cq) > 0 /\ Contains(<<"?">>, text))
  \/ (2 * time_since_trigger > 3 * Sec(QUESTION_AGGREGATION_TIME))

\* mutant of Ready: should_process alone decides
ReadyWithoutQuestion(rec, now, text) ==
  ShouldProcess(Collected(rec, now, text), now - rec.trigger_time, text)

\* if should_process and buffer_data["collected_question"]
Ready(rec, now, text) ==
  LET cq == Collected(rec, now, text)
  IN ShouldProcess(cq, now - rec.trigger_time, text) /\ Len(cq) > 0

\* the question handed to the location resolver
FullQuestion(cq) ==
  LET q == Strip(Join(cq))
  IN IF EndsWith(q, <<"?">>) THEN q ELSE q \o <<"?">>

\* mutant of ResetAllStates: the collected question survives the reset
ResetKeepsQuestion(rec) ==
  [rec EXCEPT !.trigger_detected = FALSE,
              !.trigger_time = 0,
              !.response_sent = TRUE,
              !.partial_trigger = FALSE]

\* "Reset all states"
ResetAllStates(rec) ==
  [rec EXCEPT !.trigger_detected = FALSE,
              !.trigger_time = 0,
              !.collected_question = <<>>,
              !.response_sent = TRUE,
              !.partial_trigger = FALSE]

\* which branch of the loop body a segment takes
Branch(rec, now, raw, hp) ==
  IF Len(raw) = 0 \/ hp THEN "skip"
  ELSE IF IsCompleteTrigger(Text(raw)) /\ ~rec.trigger_detected
       THEN "complete_trigger"
  ELSE IF ~rec.trigger_detected
       THEN IF IsPartialFirst(Text(raw)) THEN "partial_first"
            ELSE IF rec.partial_trigger
                 THEN IF PartialWindowOpen(rec, now)
                      THEN IF IsPartialSecond(Text(raw)) THEN "partial_second"
                           ELSE "no_trigger"
                      ELSE "partial_expired"
                 ELSE "no_trigger"
  ELSE IF ~rec.response_sent THEN "collect"
  ELSE "no_trigger"

\* ----------------------------------------------------------------- actions
EmptyStore == [s \in {} |-> NewBuffer(0)]

\* the worker threads of the server
Threads == {"t1", "t2"}

\* a worker thread that handles no request
IdleThread ==
  [pc |-> "idle", session_id |-> NoSession, current_time |-> 0,
   gb_time |-> 0, cl_time |-> 0, got |-> 0, seg_idx |-> 0,
   full_question |-> <<>>, response |-> "none"]

\* no worker thread is running: requests are handled one at a time
NoWorkers ==
  /\ threads = [t \in Threads |-> IdleThread]
  /\ lock = "free"
  /\ created = [s \in Sessions |-> 0]

Init ==
  /\ NoWorkers
  /\ clock = StartTime
  /\ buffers = EmptyStore
  /\ last_cleanup = StartTime
  /\ notification_cooldowns = [s \in Sessions |-> 0]
  /\ nrequests = 0
  /\ pc = "idle"
  /\ session_id = NoSession
  /\ current_time = 0
  /\ seg_idx = 0
  /\ segment = <<>>
  /\ has_processed = FALSE
  /\ full_question = <<>>
  /\ response = "none"

\* mutant of WebhookNoSession: the request runs the sweep before the 400
NoSessionSweeps(d) ==
  /\ UNCHANGED workers
  /\ pc = "idle"
  /\ nrequests < MaxRequests
  /\ nrequests' = nrequests + 1
  /\ clock' = clock + d
  /\ response' = "error_no_session"
  /\ pc' = "return"
  /\ buffers' = [s \in DOMAIN buffers \ ExpiredSessions(buffers, clock + d)
                   |-> buffers[s]]
  /\ last_cleanup' = clock + d
  /\ UNCHANGED <<notification_cooldowns, locals>>

\* POST /webhook without session_id, d after the previous request: 400
WebhookNoSession(d) ==
  /\ UNCHANGED workers
  /\ pc = "idle"
  /\ nrequests < MaxRequests
  /\ nrequests' = nrequests + 1
  /\ clock' = clock + d
  /\ response' = "error_no_session"
  /\ pc' = "return"
  /\ UNCHANGED <<store, locals>>

\* POST /webhook for session sid, d after the previous request
WebhookStart(sid, d) ==
  /\ UNCHANGED workers
  /\ pc = "idle"
  /\ nrequests < MaxRequests
  /\ nrequests' = nrequests + 1
  /\ clock' = clock + d
  /\ session_id' = sid
  /\ current_time' = clock + d
  /\ has_processed' = FALSE
  /\ pc' = "get_buffer"
  /\ UNCHANGED <<store, seg_idx, segment, full_question, response>>

\* get_buffer: the periodic sweep
CleanupOldSessions ==
  /\ UNCHANGED workers
  /\ pc = "get_buffer"
  /\ CleanupDue(clock)
  /\ buffers' = [s \in DOMAIN buffers \ ExpiredSessions(buffers, clock)
                   |-> buffers[s]]
  /\ last_cleanup' = clock
  /\ pc' = "lock"
  /\ UNCHANGED <<clock, notification_cooldowns, nrequests, locals, response>>

\* get_buffer: create the record or touch last_activity
GetBuffer ==
  /\ UNCHANGED workers
  /\ \/ pc = "lock"
     \/ pc = "get_buffer" /\ ~CleanupDue(clock)
  /\ buffers' =
       IF session_id \notin DOMAIN buffers
       THEN [s \in DOMAIN buffers \cup {session_id} |->
               IF s = session_id THEN NewBuffer(clock) ELSE buffers[s]]
       ELSE [buffers EXCEPT ![session_id].last_activity = clock]
  /\ pc' = "cooldown"
  /\ UNCHANGED <<clock, last_cleanup, notification_cooldowns, nrequests,
                 locals, response>>

\* the cooldown check answers the request
CooldownReturn ==
  /\ UNCHANGED workers
  /\ pc = "cooldown"
  /\ CooldownActive(buffers[session_id],
                    notification_cooldowns[session_id], current_time)
  /\ response' = "success"
  /\ pc' = "return"
  /\ UNCHANGED <<clock, store, nrequests, locals>>

\* the cooldown check lets the request through to the segment loop
ProcessSegments ==
  /\ UNCHANGED workers
  /\ pc = "cooldown"
  /\ ~CooldownActive(buffers[session_id],
                     notification_cooldowns[session_id], current_time)
  /\ pc' = "loop"
  /\ UNCHANGED <<clock, store, nrequests, locals, response>>

\* the loop takes the next segment of the request, whose text is raw
NextSegment(raw, branch) ==
  /\ UNCHANGED workers
  /\ pc = "loop"
  /\ seg_idx < MaxSegs
  /\ Branch(buffers[session_id], current_time, raw, has_processed) = branch
  /\ seg_idx' = seg_idx + 1
  /\ segment' = raw
  /\ UNCHANGED <<clock, last_cleanup, nrequests, session_id, current_time>>

\* no text, or already processed: continue
SkipSegment(raw) ==
  /\ NextSegment(raw, "skip")
  /\ UNCHANGED <<buffers, notification_cooldowns, pc, has_processed,
                 full_question, response>>

\* complete trigger phrase
CompleteTrigger(raw) ==
  /\ NextSegment(raw, "complete_trigger")
  /\ buffers' = [buffers EXCEPT ![session_id] =
                   CompleteTriggerUpdate(@, current_time, Text(raw))]
  /\ notification_cooldowns' =
       CompleteTriggerCooldown(notification_cooldowns, session_id,
                               current_time)
  /\ UNCHANGED <<pc, has_processed, full_question, response>>

\* first part of the trigger
PartialFirstPart(raw) ==
  /\ NextSegment(raw, "partial_first")
  /\ buffers' = [buffers EXCEPT ![session_id] =
                   FirstPartUpdate(@, current_time)]
  /\ UNCHANGED <<notification_cooldowns, pc, has_processed, full_question,
                 response>>

\* second part of the trigger inside the window
PartialSecondPart(raw) ==
  /\ NextSegment(raw, "partial_second")
  /\ buffers' = [buffers EXCEPT ![session_id] =
                   SecondPartUpdate(@, current_time, Text(raw))]
  /\ notification_cooldowns' =
       SecondPartCooldown(notification_cooldowns, session_id, current_time)
  /\ UNCHANGED <<pc, has_processed, full_question, response>>

\* the window to complete the trigger has passed
PartialExpired(raw) ==
  /\ NextSegment(raw, "partial_expired")
  /\ buffers' = [buffers EXCEPT ![session_id].partial_trigger = FALSE]
  /\ UNCHANGED <<notification_cooldowns, pc, has_processed, full_question,
                 response>>

\* nothing applies to the segment
NoTrigger(raw) ==
  /\ NextSegment(raw, "no_trigger")
  /\ UNCHANGED <<buffers, notification_cooldowns, pc, has_processed,
                 full_question, response>>

\* collect the segment, the question is not processed yet
CollectQuestion(raw) ==
  /\ NextSegment(raw, "collect")
  /\ ~Ready(buffers[session_id], current_time, Text(raw))
  /\ buffers' = [buffers EXCEPT ![session_id].collected_question =
                   Collected(buffers[session_id], current_time, Text(raw))]
  /\ UNCHANGED <<notification_cooldowns, pc, has_processed, full_question,
                 response>>

\* collect the segment, process the question: the resolver answers with two
\* parts, the forecast (or the provider's error text) is returned
DispatchForecast(raw, ok) ==
  /\ NextSegment(raw, "collect")
  /\ Ready(buffers[session_id], current_time, Text(raw))
  /\ full_question' =
       FullQuestion(Collected(buffers[session_id], current_time, Text(raw)))
  /\ buffers' = [buffers EXCEPT ![session_id] = ResetAllStates(@)]
  /\ has_processed' = TRUE
  /\ response' = IF ok THEN "forecast" ELSE "provider_error"
  /\ pc' = "return"
  /\ UNCHANGED notification_cooldowns

\* mutant of DispatchInvalidLocation: the loop goes on after the failure
DispatchInvalidLocationContinues(raw, parts) ==
  /\ NextSegment(raw, "collect")
  /\ Ready(buffers[session_id], current_time, Text(raw))
  /\ parts # 2
  /\ full_question' =
       FullQuestion(Collected(buffers[session_id], current_time, Text(raw)))
  /\ buffers' = [buffers EXCEPT ![session_id].collected_question =
                   Collected(buffers[session_id], current_time, Text(raw))]
  /\ response' = "invalid_location"
  /\ pc' = "loop"
  /\ UNCHANGED <<notification_cooldowns, has_processed>>

\* collect the segment, process the question: the resolver's answer does not
\* have two parts, 400 is returned
DispatchInvalidLocation(raw, parts) ==
  /\ NextSegment(raw, "collect")
  /\ Ready(buffers[session_id], current_time, Text(raw))
  /\ parts # 2
  /\ full_question' =
       FullQuestion(Collected(buffers[session_id], current_time, Text(raw)))
  /\ buffers' = [buffers EXCEPT ![session_id].collected_question =
                   Collected(buffers[session_id], current_time, Text(raw))]
  /\ response' = "invalid_location"
  /\ pc' = "return"
  /\ UNCHANGED <<notification_cooldowns, has_processed>>

\* the loop is over: generic success
LoopEnd ==
  /\ UNCHANGED workers
  /\ pc = "loop"
  /\ response' = "success"
  /\ pc' = "return"
  /\ UNCHANGED <<clock, store, nrequests, locals>>

\* the response is sent, the locals of the request are gone
Return ==
  /\ UNCHANGED workers
  /\ pc = "return"
  /\ pc' = "idle"
  /\ session_id' = NoSession
  /\ current_time' = 0
  /\ seg_idx' = 0
  /\ segment' = <<>>
  /\ has_processed' = FALSE
  /\ full_question' = <<>>
  /\ response' = "none"
  /\ UNCHANGED <<clock, store, nrequests>>

Next ==
  \/ \E d \in Deltas : WebhookNoSession(d)
  \/ \E sid \in Sessions, d \in Deltas : WebhookStart(sid, d)
  \/ CleanupOldSessions
  \/ GetBuffer
  \/ CooldownReturn
  \/ ProcessSegments
  \/ \E raw \in Texts : SkipSegment(raw)
  \/ \E raw \in Texts : CompleteTrigger(raw)
  \/ \E raw \in Texts : PartialFirstPart(raw)
  \/ \E raw \in Texts : PartialSecondPart(raw)
  \/ \E raw \in Texts : PartialExpired(raw)
  \/ \E raw \in Texts : NoTrigger(raw)
  \/ \E raw \in Texts : CollectQuestion(raw)
  \/ \E raw \in Texts, ok \in BOOLEAN : DispatchForecast(raw, ok)
  \/ \E raw \in Texts, parts \in ResolverParts :
       DispatchInvalidLocation(raw, parts)
  \/ LoopEnd
  \/ Return

Spec == Init /\ [][Next]_vars

\* ------------------------------------------------- concurrent requests
\* The server handles each request in a thread of its own. A thread runs
\* get_buffer statement by statement; the body of the segment loop up to the
\* call of the location resolver is one step, the call itself (network) is
\* in flight between two steps.

\* the position and locals of the handler that runs one request at a time
request == <<pc, locals, response>>

\* texts of the segments of concurrent requests
ConcTexts == {TXT_HEY_OMI, TXT_OMI, TXT_QUESTION}

\* the server before any request
StoreEmpty ==
  [clock |-> StartTime,
   buffers |-> EmptyStore,
   last_cleanup |-> StartTime,
   notification_cooldowns |-> [s \in Sessions |-> 0]]

\* 11 s after a request for s1 whose only segment was "hey, omi, rain"
StoreCollecting ==
  [clock |-> StartTime + Sec(1) + Sec(11),
   buffers |->
     [s \in {"s1"} |->
        [NewBuffer(StartTime + Sec(1)) EXCEPT
           !.trigger_detected = TRUE,
           !.trigger_time = StartTime + Sec(1),
           !.collected_question = << <<"r","a","i","n">> >>]],
   last_cleanup |-> StartTime,
   notification_cooldowns |->
     [s \in Sessions |-> IF s = "s1" THEN StartTime + Sec(1) ELSE 0]]

\* more than an hour after a request without segments for s1, less than an
\* hour after one for s2 that came too early to sweep
StoreStale ==
  [clock |-> StartTime + Sec(1) + Sec(SESSION_RETENTION) + 1,
   buffers |->
     [s \in Sessions |->
        IF s = "s1" THEN NewBuffer(StartTime + Sec(1))
        ELSE NewBuffer(StartTime + Sec(cleanup_interval))],
   last_cleanup |-> StartTime,
   notification_cooldowns |-> [s \in Sessions |-> 0]]

ConcStores == {StoreEmpty, StoreCollecting, StoreStale}

ConcInit ==
  /\ \E st \in ConcStores :
       /\ clock = st.clock
       /\ buffers = st.buffers
       /\ last_cleanup = st.last_cleanup
       /\ notification_cooldowns = st.notification_cooldowns
       /\ created = [s \in Sessions |->
                       IF s \in DOMAIN st.buffers THEN 1 ELSE 0]
  /\ threads = [t \in Threads |-> IdleThread]
  /\ lock = "free"
  /\ nrequests = 0
  /\ pc = "idle"
  /\ session_id = NoSession
  /\ current_time = 0
  /\ seg_idx = 0
  /\ segment = <<>>
  /\ has_processed = FALSE
  /\ full_question = <<>>
  /\ response = "none"

\* mutant of LockFree: the lock does not exclude anybody
LockIgnored(l) == l = l

\* with self.lock: the lock can be taken
LockFree(l) == l = "free"

\* time.time() moves on while the threads run
Tick ==
  /\ \E st \in ConcStores : clock >= st.clock /\ clock < st.clock + MaxTicks
  /\ clock' = clock + 1
  /\ UNCHANGED <<store, nrequests, request, workers>>

\* POST /webhook for session sid, handled by thread t
TStart(t, sid) ==
  /\ threads[t].pc = "idle"
  /\ nrequests < MaxRequests
  /\ nrequests' = nrequests + 1
  /\ threads' = [threads EXCEPT ![t] =
       [IdleThread EXCEPT !.pc = "gb_start", !.session_id = sid,
                          !.current_time = clock]]
  /\ UNCHANGED <<clock, store, request, lock, created>>

\* get_buffer: read the time, decide whether to sweep
TCheckCleanup(t) ==
  /\ threads[t].pc = "gb_start"
  /\ threads' = [threads EXCEPT ![t] =
       [@ EXCEPT !.gb_time = clock,
                 !.cl_time = IF CleanupDue(clock) THEN clock ELSE 0,
                 !.pc = IF CleanupDue(clock) THEN "cl_lock" ELSE "gb_lock"]]
  /\ UNCHANGED <<clock, store, nrequests, request, lock, created>>

\* cleanup_old_sessions: the body of its with self.lock
TSweep(t) ==
  /\ threads[t].pc = "cl_lock"
  /\ LockFree(lock)
  /\ buffers' =
       [s \in DOMAIN buffers \ ExpiredSessions(buffers, threads[t].cl_time)
          |-> buffers[s]]
  /\ last_cleanup' = threads[t].cl_time
  /\ threads' = [threads EXCEPT ![t].pc = "gb_lock"]
  /\ UNCHANGED <<clock, notification_cooldowns, nrequests, request, lock,
                 created>>

\* get_buffer: with self.lock
TLock(t) ==
  /\ threads[t].pc = "gb_lock"
  /\ LockFree(lock)
  /\ lock' = t
  /\ threads' = [threads EXCEPT ![t].pc = "gb_test"]
  /\ UNCHANGED <<clock, store, nrequests, request, created>>

\* get_buffer: if session_id not in self.buffers
TTest(t) ==
  /\ threads[t].pc = "gb_test"
  /\ threads' = [threads EXCEPT ![t].pc =
       IF threads[t].session_id \in DOMAIN buffers
       THEN "gb_touch" ELSE "gb_create"]
  /\ UNCHANGED <<clock, store, nrequests, request, lock, created>>

\* get_buffer: store a new record, leave the with block
TCreate(t) ==
  /\ threads[t].pc = "gb_create"
  /\ LET sid == threads[t].session_id
     IN /\ buffers' = [s \in DOMAIN buffers \cup {sid} |->
             IF s = sid THEN NewBuffer(threads[t].gb_time) ELSE buffers[s]]
        /\ created' = [created EXCEPT ![sid] = @ + 1]
  /\ lock' = "free"
  /\ threads' = [threads EXCEPT ![t].pc = "gb_return"]
  /\ UNCHANGED <<clock, last_cleanup, notification_cooldowns, nrequests,
                 request>>

\* get_buffer: update last_activity (KeyError when the record is gone),
\* leave the with block
TTouch(t) ==
  /\ threads[t].pc = "gb_touch"
  /\ LET sid == threads[t].session_id
     IN IF sid \in DOMAIN buffers
        THEN /\ buffers' =
                  [buffers EXCEPT ![sid].last_activity = threads[t].gb_time]
             /\ threads' = [threads EXCEPT ![t].pc = "gb_return"]
        ELSE /\ buffers' = buffers
             /\ threads' = [threads EXCEPT ![t].pc = "return",
                                           ![t].response = "key_error"]
  /\ lock' = "free"
  /\ UNCHANGED <<clock, last_cleanup, notification_cooldowns, nrequests,
                 request, created>>

\* get_buffer: return self.buffers[session_id]
TReturnBuffer(t) ==
  /\ threads[t].pc = "gb_return"
  /\ LET sid == threads[t].session_id
     IN IF sid \in DOMAIN buffers
        THEN threads' = [threads EXCEPT ![t].pc = "cooldown",
                                        ![t].got = created[sid]]
        ELSE threads' = [threads EXCEPT ![t].pc = "return",
                                        ![t].response = "key_error"]
  /\ UNCHANGED <<clock, store, nrequests, request, lock, created>>

\* the cooldown check of thread t's request
TCooldown(t) ==
  /\ threads[t].pc = "cooldown"
  /\ LET sid == threads[t].session_id
     IN IF CooldownActive(buffers[sid], notification_cooldowns[sid],
                          threads[t].current_time)
        THEN threads' = [threads EXCEPT ![t].pc = "return",
                                        ![t].response = "success"]
        ELSE threads' = [threads EXCEPT ![t].pc = "loop"]
  /\ UNCHANGED <<clock, store, nrequests, request, lock, created>>

\* the record after the loop body ran on a segment that takes branch b and
\* does not reach the location resolver
SegmentUpdate(rec, now, text, b) ==
  IF b = "complete_trigger" THEN CompleteTriggerUpdate(rec, now, text)
  ELSE IF b = "partial_first" THEN FirstPartUpdate(rec, now)
  ELSE IF b = "partial_second" THEN SecondPartUpdate(rec, now, text)
  ELSE IF b = "partial_expired" THEN [rec EXCEPT !.partial_trigger = FALSE]
  ELSE IF b = "collect"
       THEN [rec EXCEPT !.collected_question = Collected(rec, now, text)]
  ELSE rec

\* thread t runs the loop body on its next segment, whose text is raw; the
\* question is not processed
TSegment(t, raw) ==
  /\ threads[t].pc = "loop"
  /\ threads[t].seg_idx < MaxSegs
  /\ LET sid == threads[t].session_id
         now == threads[t].current_time
         b == Branch(buffers[sid], now, raw, FALSE)
     IN /\ ~(b = "collect" /\ Ready(buffers[sid], now, Text(raw)))
        /\ buffers' = [buffers EXCEPT ![sid] =
                         SegmentUpdate(@, now, Text(raw), b)]
        /\ notification_cooldowns' =
             IF b = "complete_trigger"
             THEN CompleteTriggerCooldown(notification_cooldowns, sid, now)
             ELSE IF b = "partial_second"
             THEN SecondPartCooldown(notification_cooldowns, sid, now)
             ELSE notification_cooldowns
  /\ threads' = [threads EXCEPT ![t].seg_idx = @ + 1]
  /\ UNCHANGED <<clock, last_cleanup, nrequests, request, lock, created>>

\* thread t collects its next segment, finds the question ready and calls
\* the location resolver
TAskResolver(t, raw) ==
  /\ threads[t].pc = "loop"
  /\ threads[t].seg_idx < MaxSegs
  /\ LET sid == threads[t].session_id
         now == threads[t].current_time
         cq == Collected(buffers[sid], now, Text(raw))
     IN /\ Branch(buffers[sid], now, raw, FALSE) = "collect"
        /\ Ready(buffers[sid], now, Text(raw))
        /\ buffers' = [buffers EXCEPT ![sid].collected_question = cq]
        /\ threads' = [threads EXCEPT ![t].seg_idx = @ + 1,
                                      ![t].full_question = FullQuestion(cq),
                                      ![t].pc = "resolving"]
  /\ UNCHANGED <<clock, last_cleanup, notification_cooldowns, nrequests,
                 request, lock, created>>

\* the resolver answered with two parts: forecast, reset, return
TForecast(t) ==
  /\ threads[t].pc = "resolving"
  /\ buffers' = [buffers EXCEPT ![threads[t].session_id] = ResetAllStates(@)]
  /\ threads' = [threads EXCEPT ![t].pc = "return",
                                ![t].response = "forecast"]
  /\ UNCHANGED <<clock, last_cleanup, notification_cooldowns, nrequests,
                 request, lock, created>>

\* the resolver's answer does not have two parts: 400
TInvalidLocation(t) ==
  /\ threads[t].pc = "resolving"
  /\ threads' = [threads EXCEPT ![t].pc = "return",
                                ![t].response = "invalid_location"]
  /\ UNCHANGED <<clock, store, nrequests, request, lock, created>>

\* the loop of thread t is over: generic success
TLoopEnd(t) ==
  /\ threads[t].pc = "loop"
  /\ threads' = [threads EXCEPT ![t].pc = "return",
                                ![t].response = "success"]
  /\ UNCHANGED <<clock, store, nrequests, request, lock, created>>

\* the response of thread t is sent
TReturn(t) ==
  /\ threads[t].pc = "return"
  /\ threads' = [threads EXCEPT ![t] = IdleThread]
  /\ UNCHANGED <<clock, store, nrequests, request, lock, created>>

ConcNext ==
  \/ Tick
  \/ \E t \in Threads, sid \in Sessions : TStart(t, sid)
  \/ \E t \in Threads : TCheckCleanup(t)
  \/ \E t \in Threads : TSweep(t)
  \/ \E t \in Threads : TLock(t)
  \/ \E t \in Threads : TTest(t)
  \/ \E t \in Threads : TCreate(t)
  \/ \E t \in Threads : TTouch(t)
  \/ \E t \in Threads : TReturnBuffer(t)
  \/ \E t \in Threads : TCooldown(t)
  \/ \E t \in Threads, raw \in ConcTexts : TSegment(t, raw)
  \/ \E t \in Threads, raw \in ConcTexts : TAskResolver(t, raw)
  \/ \E t \in Threads : TForecast(t)
  \/ \E t \in Threads : TInvalidLocation(t)
  \/ \E t \in Threads : TLoopEnd(t)
  \/ \E t \in Threads : TReturn(t)

SpecConc == ConcInit /\ [][ConcNext]_vars

\* ------------------------------------------------------------------ claims
\* the record of the request being handled
Rec == buffers[session_id]

\* this step evaluates a segment with text: segment' is its raw text
Evaluated == pc = "loop" /\ seg_idx' = seg_idx + 1 /\ Len(segment') > 0

\* the responses of a request that called the location resolver
DispatchResponses == {"forecast", "provider_error", "invalid_location"}

\* this step finds the question READY and attempts the dispatch
YieldsReady == pc' = "return" /\ response' \in DispatchResponses

\* C1: in every reachable state, a session record with a non-empty
\* collected_question has trigger_detected = TRUE.
C1_CollectedImpliesTrigger ==
  \A s \in DOMAIN buffers :
    Len(buffers[s].collected_question) > 0 => buffers[s].trigger_detected

\* C1 witness: an extraction-failure return that leaves a collected question.
C1_Witness ==
  /\ pc = "return"
  /\ response = "invalid_location"
  /\ Len(Rec.collected_question) > 0
  /\ Rec.trigger_detected

\* C2 (as claimed): once the resolver was called the record is reset to IDLE,
\* whatever the outcome: forecast, provider failure or extraction failure.
C2_ResetWhateverOutcome ==
  (pc = "return" /\ response \in DispatchResponses) =>
    /\ ~Rec.trigger_detected
    /\ Rec.trigger_time = 0
    /\ Rec.collected_question = <<>>
    /\ Rec.response_sent
    /\ ~Rec.partial_trigger

\* C3 (as claimed): a segment evaluated more than 7.5 s after the trigger of
\* a session that collected nothing closes the cycle: the record leaves
\* COLLECTING.
C3_ForcedClosure ==
  [][(/\ Evaluated
      /\ Rec.trigger_detected
      /\ ~Rec.response_sent
      /\ Rec.collected_question = <<>>
      /\ 10 * (current_time - Rec.trigger_time) > Sec(75))
     => ~buffers'[session_id].trigger_detected]_vars

\* the record a request finds 1 s after a lone "hey omi" confirmed the trigger
AfterHeyOmi ==
  /\ Rec.trigger_detected
  /\ ~Rec.response_sent
  /\ ~Rec.partial_trigger
  /\ Rec.collected_question = <<>>
  /\ Rec.trigger_time = current_time - Sec(1)
  /\ notification_cooldowns[session_id] = Rec.trigger_time

\* C4 (as claimed): the request that follows "hey omi" by 1 s has its
\* segment evaluated, and a segment ending with a question mark is then
\* dispatched as the whole question.
C4_EndToEnd ==
  [][/\ (pc = "cooldown" /\ AfterHeyOmi) => pc' = "loop"
     /\ (/\ Evaluated
         /\ seg_idx = 0
         /\ AfterHeyOmi
         /\ EndsWith(Text(segment'), <<"?">>))
        => (YieldsReady /\ full_question' = Text(segment'))]_vars

\* C5 (as claimed): a request that finds a confirmed, unresolved trigger less
\* than 10 s old is answered with the generic success, no segment evaluated.
C5_CooldownSuppresses ==
  [][(/\ pc = "cooldown"
      /\ Rec.trigger_detected
      /\ ~Rec.response_sent
      /\ current_time - Rec.trigger_time < Sec(10))
     => (pc' = "return" /\ response' = "success" /\ seg_idx' = seg_idx)]_vars

\* a segment with a question mark is evaluated 1 s after the trigger
QuestionAtOneSecond ==
  /\ Evaluated
  /\ Rec.trigger_detected
  /\ ~Rec.response_sent
  /\ current_time - Rec.trigger_time = Sec(1)
  /\ Contains(<<"?">>, Text(segment'))

\* C6 (as claimed): the segment yields READY when something was collected
\* before it, and does not when nothing was.
C6_Original ==
  [][QuestionAtOneSecond =>
       /\ Len(Rec.collected_question) > 0 => YieldsReady
       /\ Len(Rec.collected_question) = 0 => ~YieldsReady]_vars

\* C6 (amended): the segment yields READY in both cases; when nothing was
\* collected before it, the question dispatched is that segment alone.
C6_QuestionMarkYieldsReady ==
  [][QuestionAtOneSecond =>
       /\ YieldsReady
       /\ Len(Rec.collected_question) = 0 =>
            full_question' = FullQuestion(<<Text(segment')>>)]_vars

\* C6 witness: nothing was collected, the question segment came 1 s after the
\* trigger and was dispatched (the resolver's answer was rejected, so the
\* record still shows the cycle).
C6_Witness ==
  /\ pc = "return"
  /\ response = "invalid_location"
  /\ Contains(<<"?">>, Text(segment))
  /\ Rec.collected_question = <<Text(segment)>>
  /\ current_time - Rec.trigger_time = Sec(1)

\* C7: a segment with a complete wake phrase, evaluated for a record with
\* trigger_detected = FALSE, confirms the trigger in that step whatever
\* partial_trigger was: trigger_time = now, response_sent and partial_trigger
\* FALSE, collected_question at most the text after "omi,", cooldown = now.
C7_FullPhraseConfirms ==
  [][(Evaluated /\ ~Rec.trigger_detected /\ IsCompleteTrigger(Text(segment')))
     => LET r == buffers'[session_id]
        IN /\ r.trigger_detected
           /\ r.trigger_time = current_time
           /\ ~r.response_sent
           /\ ~r.partial_trigger
           /\ \/ r.collected_question = <<>>
              \/ r.collected_question =
                   <<Strip(SplitLast(Text(segment'), OMI_COMMA))>>
           /\ notification_cooldowns'[session_id] = current_time
           /\ pc' = "loop"]_vars

\* C7 witness: the first segment of the request set partial_trigger, the
\* second held the complete phrase and confirmed the trigger.
C7_Witness ==
  /\ pc = "loop"
  /\ seg_idx = 2
  /\ IsCompleteTrigger(Text(segment))
  /\ Rec.trigger_detected
  /\ Rec.trigger_time = current_time
  /\ Rec.partial_trigger_time = current_time
  /\ ~Rec.partial_trigger
  /\ notification_cooldowns[session_id] = current_time

\* a segment that holds a second part and neither a complete phrase nor a
\* first part at its end
SecondPartOnly(text) ==
  /\ IsPartialSecond(text)
  /\ ~IsCompleteTrigger(text)
  /\ ~IsPartialFirst(text)

\* C8: for an IDLE record a segment ending with a first part sets
\* partial_trigger and collects nothing; a following second-part segment
\* confirms the trigger when evaluated at most 2.0 s later, and evaluated
\* later than that leaves trigger_detected and partial_trigger FALSE.
C8_SplitTrigger ==
  [][/\ (/\ Evaluated
         /\ ~Rec.trigger_detected
         /\ ~Rec.partial_trigger
         /\ IsPartialFirst(Text(segment'))
         /\ ~IsCompleteTrigger(Text(segment')))
        => LET r == buffers'[session_id]
           IN /\ r.partial_trigger
              /\ r.partial_trigger_time = current_time
              /\ ~r.trigger_detected
              /\ r.collected_question = Rec.collected_question
     /\ (/\ Evaluated
         /\ ~Rec.trigger_detected
         /\ Rec.partial_trigger
         /\ SecondPartOnly(Text(segment')))
        => LET r == buffers'[session_id]
           IN IF current_time - Rec.partial_trigger_time <= Sec(2)
              THEN /\ r.trigger_detected
                   /\ r.trigger_time = current_time
                   /\ ~r.response_sent
                   /\ ~r.partial_trigger
              ELSE /\ ~r.trigger_detected
                   /\ ~r.partial_trigger]_vars

\* C8 witness: the only segment of a request is a second part, and it
\* confirmed a trigger whose first part came with an earlier request.
C8_Witness ==
  /\ pc = "loop"
  /\ seg_idx = 1
  /\ SecondPartOnly(Text(segment))
  /\ Rec.trigger_detected
  /\ Rec.trigger_time = current_time
  /\ Rec.partial_trigger_time > 0
  /\ Rec.partial_trigger_time < current_time

\* C9 (as claimed): a trigger confirmed by a second part inside the window
\* updates the record as a complete phrase does and sets the session's
\* cooldown timestamp to now.
C9_SecondPartSetsCooldown ==
  [][(/\ Evaluated
      /\ ~Rec.trigger_detected
      /\ Rec.partial_trigger
      /\ current_time - Rec.partial_trigger_time <= Sec(2)
      /\ SecondPartOnly(Text(segment')))
     => LET r == buffers'[session_id]
        IN /\ r.trigger_detected
           /\ r.trigger_time = current_time
           /\ ~r.response_sent
           /\ ~r.partial_trigger
           /\ notification_cooldowns'[session_id] = current_time]_vars

\* C10: a record is created with response_sent = FALSE; response_sent turns
\* TRUE only in the step that returns the forecast of that session's
\* dispatch; it turns FALSE only in a step that confirms a trigger, and
\* every confirmation leaves it FALSE.
C10_ResponseSent ==
  [][\A s \in DOMAIN buffers' :
       IF s \notin DOMAIN buffers
       THEN ~buffers'[s].response_sent
       ELSE /\ (~buffers[s].response_sent /\ buffers'[s].response_sent)
                 => /\ s = session_id
                    /\ pc' = "return"
                    /\ response' \in {"forecast", "provider_error"}
            /\ (buffers[s].response_sent /\ ~buffers'[s].response_sent)
                 => /\ ~buffers[s].trigger_detected
                    /\ buffers'[s].trigger_detected
                    /\ buffers'[s].trigger_time = current_time
            /\ (~buffers[s].trigger_detected /\ buffers'[s].trigger_detected)
                 => ~buffers'[s].response_sent]_vars

\* C10 witness: a trigger confirmed now for a session whose earlier cycle
\* (cooldown timestamp in the past, the record not expired since) was
\* dispatched: response_sent was TRUE and this confirmation cleared it.
C10_Witness ==
  /\ pc = "loop"
  /\ Rec.trigger_detected
  /\ ~Rec.response_sent
  /\ Rec.trigger_time = current_time
  /\ notification_cooldowns[session_id] > 0
  /\ notification_cooldowns[session_id] < current_time
  /\ current_time - notification_cooldowns[session_id] <= Sec(SESSION_RETENTION)

\* this step is a run of cleanup_old_sessions, at time clock
Sweep == pc = "get_buffer" /\ pc' = "lock"

\* C11: a sweep run at time now removes exactly the records whose
\* last_activity is more than 3600 s before now: each of them is gone, each
\* record with now - last_activity <= 3600 s is still there with its fields
\* unchanged, no record appears, and last_cleanup is set to now.
C11_SweepRemovesExpired ==
  [][Sweep =>
       /\ \A s \in DOMAIN buffers :
            IF clock - buffers[s].last_activity > Sec(3600)
            THEN s \notin DOMAIN buffers'
            ELSE s \in DOMAIN buffers' /\ buffers'[s] = buffers[s]
       /\ DOMAIN buffers' \subseteq DOMAIN buffers
       /\ last_cleanup' = clock]_vars

\* C11 witness: a sweep has just run and a session that had confirmed a
\* trigger (its cooldown timestamp is written) has no record any more.
C11_Witness ==
  /\ pc = "lock"
  /\ last_cleanup = clock
  /\ \E s \in Sessions :
       s \notin DOMAIN buffers /\ notification_cooldowns[s] > 0

\* the positions at which a thread holds the record get_buffer returned
Holding == {"cooldown", "loop", "resolving"}

\* C12: under any interleaving of concurrent get_buffer calls, sweeps
\* included, a record is created for a session only when the store has none
\* for it, and every caller holds the record the store has for its session:
\* two calls for one session obtain the same record.
C12_OneRecordPerSession ==
  [][/\ \A s \in Sessions :
          created'[s] # created[s] =>
            (s \notin DOMAIN buffers /\ created'[s] = created[s] + 1)
     /\ \A t \in Threads :
          threads'[t].pc \in Holding =>
            /\ threads'[t].session_id \in DOMAIN buffers'
            /\ threads'[t].got = created'[threads'[t].session_id]
     /\ \A t, u \in Threads :
          (/\ threads'[t].pc \in Holding
           /\ threads'[u].pc \in Holding
           /\ threads'[t].session_id = threads'[u].session_id)
          => threads'[t].got = threads'[u].got]_vars

\* C12 witness: two threads called get_buffer for the same session, which
\* had no record before; both are back from the call with the one record
\* that was created.
C12_Witness ==
  \E s \in Sessions :
    /\ \A t \in Threads :
         /\ threads[t].pc = "cooldown"
         /\ threads[t].session_id = s
         /\ threads[t].got = 1
    /\ created[s] = 1
    /\ buffers[s].last_activity < StoreCollecting.clock

\* C13 (as claimed): two requests for one session never both find the same
\* collected question ready and both call the location resolver for it.
C13_SingleDispatch ==
  \A t, u \in Threads :
    ~(/\ t # u
      /\ threads[t].pc = "resolving"
      /\ threads[u].pc = "resolving"
      /\ threads[t].session_id = threads[u].session_id
      /\ threads[t].full_question = threads[u].full_question)

\* C14 (as claimed): a trigger is never confirmed for a session less than
\* 10 s after the previous confirmation of that session, the one the
\* cooldown timestamp recorded, also when that cycle was dispatched.
C14_MinimumSpacing ==
  [][\A s \in DOMAIN buffers \cap DOMAIN buffers' :
       (/\ ~buffers[s].trigger_detected
        /\ buffers'[s].trigger_detected
        /\ notification_cooldowns[s] > 0)
       => current_time - notification_cooldowns[s] >= Sec(10)]_vars

\* C15: the segments of a request are evaluated one after the other with the
\* timestamp of the request, and once a segment was found ready and its
\* dispatch attempted the handler returns: no other segment is evaluated,
\* the store is not written again, the request has one dispatch at most.
C15_FirstDispatchWins ==
  [][/\ (pc = "loop" /\ pc' # "idle") =>
          /\ current_time' = current_time
          /\ session_id' = session_id
          /\ seg_idx' \in {seg_idx, seg_idx + 1}
     /\ response \in DispatchResponses =>
          /\ pc = "return"
          /\ pc' = "idle"
          /\ seg_idx' = 0
          /\ UNCHANGED store
     /\ YieldsReady => response = "none"]_vars

\* C15 witness: the first segment of a request was dispatched and the
\* handler is about to return.
C15_Witness ==
  /\ pc = "return"
  /\ response \in DispatchResponses
  /\ seg_idx = 1
  /\ seg_idx < MaxSegs

\* C16: the collected question of a record whose trigger is confirmed grows
\* only by the text of the segment being evaluated, and only when
\* response_sent = FALSE and now - trigger_time <= 5 s; a segment evaluated
\* more than 5 s after the trigger is never appended.
C16_AppendInsideWindow ==
  [][\A s \in DOMAIN buffers \cap DOMAIN buffers' :
       LET r == buffers[s]
           q == buffers'[s].collected_question
       IN /\ (r.trigger_detected /\ Len(q) > Len(r.collected_question)) =>
               /\ Evaluated
               /\ s = session_id
               /\ ~r.response_sent
               /\ current_time - r.trigger_time <= Sec(5)
               /\ q = Append(r.collected_question, Text(segment'))
          /\ (/\ Evaluated
              /\ s = session_id
              /\ r.trigger_detected
              /\ current_time - r.trigger_time > Sec(5)) =>
               Len(q) <= Len(r.collected_question)]_vars

\* C16 witness: a segment evaluated more than 5 s after the trigger closed
\* the question collected before it (the resolver's answer was rejected, so
\* the record still shows it) and is not part of it.
C16_Witness ==
  /\ pc = "return"
  /\ response = "invalid_location"
  /\ current_time - Rec.trigger_time > Sec(5)
  /\ Len(Rec.collected_question) = 1
  /\ Rec.collected_question[1] # Text(segment)

\* the trigger state of a record: all its fields but last_activity
TriggerState(rec) ==
  <<rec.trigger_detected, rec.trigger_time, rec.collected_question,
    rec.response_sent, rec.partial_trigger, rec.partial_trigger_time,
    rec.messages>>

\* the request being handled finds the cooldown of its session active
Suppressed ==
  /\ Rec.trigger_detected
  /\ ~Rec.response_sent
  /\ current_time - notification_cooldowns[session_id] < Sec(10)

\* C17: a request short-circuited by the cooldown is a no-op on the trigger
\* state. Up to the cooldown check a request changes nothing of an existing
\* record but last_activity and writes no cooldown timestamp; the check then
\* answers with the generic success, and from there to the end of the
\* request the store is not written and no segment is looked at.
C17_SuppressedIsNoOp ==
  [][/\ (pc \in {"idle", "get_buffer", "lock"}) =>
          /\ notification_cooldowns' = notification_cooldowns
          /\ \A s \in DOMAIN buffers \cap DOMAIN buffers' :
               /\ TriggerState(buffers'[s]) = TriggerState(buffers[s])
               /\ buffers'[s].last_activity # buffers[s].last_activity =>
                    (s = session_id /\ buffers'[s].last_activity = clock)
     /\ (pc = "cooldown" /\ Suppressed) =>
          /\ pc' = "return"
          /\ response' = "success"
          /\ seg_idx' = 0
          /\ UNCHANGED store
     /\ (pc = "return" /\ seg_idx = 0) =>
          /\ pc' = "idle"
          /\ UNCHANGED store]_vars

\* C17 witness: a request was answered by the cooldown check; its record was
\* touched by this request and shows the trigger confirmed by an earlier one.
C17_Witness ==
  /\ pc = "return"
  /\ response = "success"
  /\ seg_idx = 0
  /\ Suppressed
  /\ Rec.last_activity = current_time
  /\ Rec.trigger_time < current_time

\* C18: a request without session identifier is answered with the client
\* error and, from its arrival to its return, writes nothing: no record is
\* created, deleted or modified (last_activity included), last_cleanup and
\* the cooldown timestamps stay as they are.
C18_NoSessionNoEffect ==
  [][/\ (pc = "idle" /\ pc' # "idle" /\ session_id' = NoSession) =>
          /\ pc' = "return"
          /\ response' = "error_no_session"
          /\ UNCHANGED store
     /\ (pc = "return" /\ response = "error_no_session") =>
          /\ pc' = "idle"
          /\ UNCHANGED store]_vars

\* C18 witness: the request without session identifier arrived more than an
\* hour after the last activity of a session whose record it leaves in the
\* store, and more than 300 s after the last sweep.
C18_Witness ==
  /\ pc = "return"
  /\ response = "error_no_session"
  /\ clock - last_cleanup > Sec(cleanup_interval)
  /\ \E s \in DOMAIN buffers :
       clock - buffers[s].last_activity > Sec(SESSION_RETENTION)

\* C19: with requests handled one at a time, no session record ever has
\* trigger_detected and response_sent both TRUE.
C19_NotTriggeredAndSent ==
  \A s \in DOMAIN buffers :
    ~(buffers[s].trigger_detected /\ buffers[s].response_sent)

\* C19 witness: the forecast of a session is about to be returned, its
\* record was reset: response_sent is TRUE and trigger_detected FALSE.
C19_Witness ==
  /\ pc = "return"
  /\ response = "forecast"
  /\ Rec.response_sent
  /\ ~Rec.trigger_detected
  /\ Len(full_question) > 0

\* a record with a confirmed trigger, nothing collected and the aggregation
\* window over at time now
Absorbing(rec, now) ==
  /\ rec.trigger_detected
  /\ ~rec.response_sent
  /\ rec.collected_question = <<>>
  /\ now - rec.trigger_time > Sec(5)

\* C20: a record with trigger_detected, response_sent = FALSE, nothing
\* collected and now - trigger_time > 5 s stays so: no step of a request,
\* whatever the text of its segments, changes trigger_detected,
\* trigger_time, collected_question, response_sent or partial_trigger, none
\* dispatches for the session, and the record leaves the store only by the
\* sweep.
C20_StuckCollecting ==
  [][\A s \in DOMAIN buffers :
       Absorbing(buffers[s], clock) =>
         /\ s \notin DOMAIN buffers' => Sweep
         /\ s \in DOMAIN buffers' =>
              /\ buffers'[s].trigger_detected
              /\ buffers'[s].trigger_time = buffers[s].trigger_time
              /\ buffers'[s].collected_question = <<>>
              /\ ~buffers'[s].response_sent
              /\ buffers'[s].partial_trigger = buffers[s].partial_trigger
         /\ s = session_id => ~YieldsReady]_vars

\* C20 witness: a request that came more than 7.5 s after the trigger had two
\* segments evaluated, the last one with the complete wake phrase, and the
\* record is as it was.
C20_Witness ==
  /\ pc = "loop"
  /\ seg_idx = 2
  /\ IsCompleteTrigger(Text(segment))
  /\ Absorbing(Rec, current_time)
  /\ 2 * (current_time - Rec.trigger_time) > 3 * Sec(5)

====
